---- MODULE Spec2Model ----
(***************************************************************************)
(* Model of src/gspython.py: four solvers of the 0/1 knapsack problem      *)
(* (greedy_knapsack, recursive_knapsack, memoized_knapsack,                *)
(* bottom_up_knapsack) and the driver run_tests / main.                    *)
(*                                                                         *)
(* Conventions.                                                            *)
(*  - A Project is the record [name, value, hours] (src lines 52-56).      *)
(*  - A Python list of Project references is a sequence of positions       *)
(*    1..n in `projects` (a reference identifies the object, so two        *)
(*    projects with equal fields stay distinguishable, as with `is`).      *)
(*  - The index i of solve(i, remaining) and of the table T is Python's    *)
(*    0-based index; projects[i] of the code is projects[i + 1] here.      *)
(*  - A result pair (value, list) is the record [value, chosen].           *)
(***************************************************************************)
EXTENDS Integers, Sequences, FiniteSets, TLC

(* ------------------------------ bounds --------------------------------- *)
MaxN     == 3     \* longest project list drawn by Init
MaxValue == 1     \* values are drawn from 0..MaxValue
MaxHours == 2     \* hours are drawn from 1..MaxHours
MaxCap   == 3     \* capacities are drawn from -NegCaps..MaxCap
NegCaps  == 1

VARIABLES
    projects,     \* the list handed to the solvers
    capacity,     \* the capacity handed to the solvers
    scenario,     \* position in test_scenarios (0 outside run_tests)
    pc,           \* position of the caller / of the running solver
    greedy_res,   \* result of greedy_knapsack
    rec_res,      \* result of recursive_knapsack
    memo,         \* memoized_knapsack: the dict memo
    stack,        \* memoized_knapsack: the active calls of solve, top last
    ret,          \* memoized_knapsack: value returned by the last call
    computed,     \* memoized_knapsack: per key, executions of line 167
    memo_res,     \* result of memoized_knapsack
    T,            \* bottom_up_knapsack: the table, rows 0..n
    bu_i,         \* bottom_up_knapsack: loop variable i
    bu_c,         \* bottom_up_knapsack: loop variable / walk variable c
    chosen,       \* bottom_up_knapsack: the list chosen
    bottom_res,   \* result of bottom_up_knapsack
    out           \* lines printed so far

vars == <<projects, capacity, scenario, pc, greedy_res, rec_res, memo, stack,
          ret, computed, memo_res, T, bu_i, bu_c, chosen, bottom_res, out>>

(* ------------------------------ helpers -------------------------------- *)
Project(nm, v, h) == [name |-> nm, value |-> v, hours |-> h]

Result(v, l) == [value |-> v, chosen |-> l]

\* a variable that holds no result yet
NoResult == [value |-> 0 - 1, chosen |-> <<>>]

SetMin(S) == CHOOSE x \in S : \A y \in S : x <= y

Reverse(s) == [k \in 1..Len(s) |-> s[Len(s) + 1 - k]]

\* Python's list indexing list[idx]: a negative idx counts from the end,
\* anything outside -len..len-1 raises IndexError.
PyIndexOK(list, idx) == (0 - Len(list)) <= idx /\ idx < Len(list)

PyItem(list, idx) == IF idx >= 0 THEN list[idx + 1] ELSE list[Len(list) + idx + 1]

(* --------------------------- greedy_knapsack --------------------------- *)
\* faulty variant of RatioGreater: the key is the value alone
RatioGreater_Mut(p, q) == p.value > q.value

\* key(p) > key(q) for key = p.value / p.hours (line 78).  The quotient is a
\* correctly rounded double; for the small positive integers used here two
\* different rationals never round to the same double, so the order of the
\* keys is the order of the rationals, compared by cross multiplication.
RatioGreater(p, q) == p.value * q.hours > q.value * p.hours

\* insert position k into the descending, stable order s
SortInsert(ps, s, k) ==
    LET smaller == {j \in 1..Len(s) : RatioGreater(ps[k], ps[s[j]])}
        pos     == IF smaller = {} THEN Len(s) + 1 ELSE SetMin(smaller)
    IN  SubSeq(s, 1, pos - 1) \o <<k>> \o SubSeq(s, pos, Len(s))

\* sorted(projects, key=..., reverse=True): descending by key, and stable
\* (equal keys keep their original relative order)
RECURSIVE sorted_prefix(_, _)
sorted_prefix(ps, k) ==
    IF k = 0 THEN <<>> ELSE SortInsert(ps, sorted_prefix(ps, k - 1), k)

sorted_projects(ps) == sorted_prefix(ps, Len(ps))

\* faulty variant of greedy_loop: line 85 adds the hours, not the value
RECURSIVE greedy_loop_Mut(_, _, _, _, _, _)
greedy_loop_Mut(ps, order, k, remaining, total_value, ch) ==
    IF k > Len(order) THEN Result(total_value, ch)
    ELSE LET p == ps[order[k]]
         IN  IF p.hours <= remaining
             THEN greedy_loop_Mut(ps, order, k + 1, remaining - p.hours,
                                  total_value + p.hours, Append(ch, order[k]))
             ELSE greedy_loop_Mut(ps, order, k + 1, remaining, total_value, ch)

\* the loop of lines 82-86 from position k of the sorted list on
RECURSIVE greedy_loop(_, _, _, _, _, _)
greedy_loop(ps, order, k, remaining, total_value, ch) ==
    IF k > Len(order) THEN Result(total_value, ch)
    ELSE LET p == ps[order[k]]
         IN  IF p.hours <= remaining
             THEN greedy_loop(ps, order, k + 1, remaining - p.hours,
                              total_value + p.value, Append(ch, order[k]))
             ELSE greedy_loop(ps, order, k + 1, remaining, total_value, ch)

\* faulty variant of greedy_knapsack: remaining starts one too high
greedy_knapsack_Mut(ps, cap) ==
    IF cap <= 0 \/ Len(ps) = 0 THEN Result(0, <<>>)
    ELSE greedy_loop(ps, sorted_projects(ps), 1, cap + 1, 0, <<>>)

greedy_knapsack(ps, cap) ==
    IF cap <= 0 \/ Len(ps) = 0 THEN Result(0, <<>>)
    ELSE greedy_loop(ps, sorted_projects(ps), 1, cap, 0, <<>>)

(* -------------------------- recursive_knapsack ------------------------- *)
\* faulty variant of Better: inclusion wins ties
Better_Mut(value_with, list_with, value_without, list_without) ==
    IF value_with >= value_without
    THEN Result(value_with, list_with)
    ELSE Result(value_without, list_without)

\* the choice of lines 122-125
Better(value_with, list_with, value_without, list_without) ==
    IF value_with > value_without
    THEN Result(value_with, list_with)
    ELSE Result(value_without, list_without)

RECURSIVE solve(_, _, _)
solve(ps, i, remaining) ==
    IF i = Len(ps) \/ remaining <= 0 THEN Result(0, <<>>)
    ELSE LET without == solve(ps, i + 1, remaining)
             project == ps[i + 1]
         IN  IF project.hours <= remaining
             THEN LET sub == solve(ps, i + 1, remaining - project.hours)
                  IN  Better(sub.value + project.value,
                             <<i + 1>> \o sub.chosen,
                             without.value, without.chosen)
             ELSE Better(0 - 1, <<>>, without.value, without.chosen)

\* faulty variant of recursive_knapsack: the capacity is one too low
recursive_knapsack_Mut(ps, cap) == solve(ps, 0, cap - 1)

recursive_knapsack(ps, cap) == solve(ps, 0, cap)

(* -------------------------- memoized_knapsack -------------------------- *)
\* one active call of solve (lines 147-168): its arguments, where it stands,
\* and its locals value_without / list_without once line 155 has returned
Frame(i, remaining, phase, value_without, list_without) ==
    [i |-> i, remaining |-> remaining, phase |-> phase,
     value_without |-> value_without, list_without |-> list_without]

Top == stack[Len(stack)]

Pop == SubSeq(stack, 1, Len(stack) - 1)

\* faulty variant of InMemo: the cache is never consulted
InMemo_Mut(key, m) == FALSE

\* `key in memo` (line 151)

InMemo(key, m) == key \in DOMAIN m

\* memo[key] = best (line 167): a dict assignment, which replaces an entry
DictSet(m, key, val) == (key :> val) @@ m

\* faulty variant of best_of: inclusion wins ties
best_of_Mut(value_with, list_with, value_without, list_without) ==
    IF value_with >= value_without
    THEN Result(value_with, list_with)
    ELSE Result(value_without, list_without)

\* the choice of line 166
best_of(value_with, list_with, value_without, list_without) ==
    IF value_with > value_without
    THEN Result(value_with, list_with)
    ELSE Result(value_without, list_without)

\* line 170 (called from line 272): a fresh dict, then solve(0, capacity)
MemoCall ==
    /\ pc = "call_memoized"
    /\ memo' = <<>>
    /\ computed' = <<>>
    /\ stack' = <<Frame(0, capacity, "enter", 0, <<>>)>>
    /\ ret' = NoResult
    /\ pc' = "memo_run"
    /\ UNCHANGED <<projects, capacity, scenario, greedy_res, rec_res,
                   memo_res, T, bu_i, bu_c, chosen, bottom_res, out>>

\* lines 148-149: the base case
SolveBase ==
    /\ pc = "memo_run" /\ stack # <<>> /\ Top.phase = "enter"
    /\ Top.i = Len(projects) \/ Top.remaining <= 0
    /\ ret' = Result(0, <<>>)
    /\ stack' = Pop
    /\ UNCHANGED <<projects, capacity, scenario, pc, greedy_res, rec_res,
                   memo, computed, memo_res, T, bu_i, bu_c, chosen,
                   bottom_res, out>>

\* lines 150-155: a cached key returns its entry; any other key goes on to
\* call solve(i + 1, remaining)
SolveKey ==
    /\ pc = "memo_run" /\ stack # <<>> /\ Top.phase = "enter"
    /\ ~(Top.i = Len(projects) \/ Top.remaining <= 0)
    /\ IF InMemo(<<Top.i, Top.remaining>>, memo)
       THEN /\ ret' = memo[<<Top.i, Top.remaining>>]
            /\ stack' = Pop
       ELSE /\ stack' = Append([stack EXCEPT ![Len(stack)].phase = "without"],
                               Frame(Top.i + 1, Top.remaining, "enter", 0, <<>>))
            /\ ret' = ret
    /\ UNCHANGED <<projects, capacity, scenario, pc, greedy_res, rec_res,
                   memo, computed, memo_res, T, bu_i, bu_c, chosen,
                   bottom_res, out>>

\* lines 155-162: line 155 has returned; call solve(i + 1, remaining - hours)
\* if the project fits, else go on with value_with = -1
SolveInclude ==
    /\ pc = "memo_run" /\ stack # <<>> /\ Top.phase = "without"
    /\ LET project == projects[Top.i + 1]
           mine    == [Top EXCEPT !.value_without = ret.value,
                                  !.list_without = ret.chosen]
       IN  IF project.hours <= Top.remaining
           THEN stack' = Append(
                    [stack EXCEPT ![Len(stack)] = [mine EXCEPT !.phase = "with"]],
                    Frame(Top.i + 1, Top.remaining - project.hours,
                          "enter", 0, <<>>))
           ELSE stack' =
                    [stack EXCEPT ![Len(stack)] = [mine EXCEPT !.phase = "skip"]]
    /\ UNCHANGED <<projects, capacity, scenario, pc, greedy_res, rec_res,
                   memo, ret, computed, memo_res, T, bu_i, bu_c, chosen,
                   bottom_res, out>>

\* lines 163-168: choose, store under the key, return
SolveStore ==
    /\ pc = "memo_run" /\ stack # <<>> /\ Top.phase \in {"with", "skip"}
    /\ LET project == projects[Top.i + 1]
           key     == <<Top.i, Top.remaining>>
           best    == IF Top.phase = "with"
                      THEN best_of(ret.value + project.value,
                                   <<Top.i + 1>> \o ret.chosen,
                                   Top.value_without, Top.list_without)
                      ELSE best_of(0 - 1, <<>>,
                                   Top.value_without, Top.list_without)
       IN  /\ memo' = DictSet(memo, key, best)
           /\ computed' = DictSet(computed, key,
                             IF key \in DOMAIN computed
                             THEN computed[key] + 1 ELSE 1)
           /\ ret' = best
    /\ stack' = Pop
    /\ UNCHANGED <<projects, capacity, scenario, pc, greedy_res, rec_res,
                   memo_res, T, bu_i, bu_c, chosen, bottom_res, out>>

\* line 170 returns to line 272
MemoReturn ==
    /\ pc = "memo_run" /\ stack = <<>>
    /\ memo_res' = ret
    /\ pc' = "call_bottom_up"
    /\ UNCHANGED <<projects, capacity, scenario, greedy_res, rec_res, memo,
                   stack, ret, computed, T, bu_i, bu_c, chosen, bottom_res,
                   out>>

(* ------------------------- bottom_up_knapsack -------------------------- *)
\* faulty variant of cell_value: the candidate is read at column c, not at
\* column c - p.hours
cell_value_NoSub(Tb, p, i, c) ==
    LET best == PyItem(Tb[i], c)
    IN  IF p.hours <= c
        THEN LET cand == PyItem(Tb[i], c) + p.value
             IN  IF cand > best THEN cand ELSE best
        ELSE best

\* faulty variant of cell_value: the fit test is off by one
cell_value_Mut(Tb, p, i, c) ==
    LET best == PyItem(Tb[i], c)
    IN  IF p.hours <= c + 1
        THEN LET cand == PyItem(Tb[i], c - p.hours) + p.value
             IN  IF cand > best THEN cand ELSE best
        ELSE best

\* the body of the inner loop, lines 196-201: the value written to T[i][c];
\* Tb[i] is the row T[i - 1] of the code
cell_value(Tb, p, i, c) ==
    LET best == PyItem(Tb[i], c)
    IN  IF p.hours <= c
        THEN LET cand == PyItem(Tb[i], c - p.hours) + p.value
             IN  IF cand > best THEN cand ELSE best
        ELSE best

\* lines 188-190 (called from line 273); [0] * k is the empty list for k <= 0.
\* The loops of lines 192-202 have no cell to write when there is no project
\* or no column.
BU_Call ==
    /\ pc = "call_bottom_up"
    /\ T' = [r \in 1..(Len(projects) + 1) |-> [k \in 1..(capacity + 1) |-> 0]]
    /\ chosen' = <<>>
    /\ IF Len(projects) >= 1 /\ capacity >= 0
       THEN pc' = "bu_fill" /\ bu_i' = 1 /\ bu_c' = 0
       ELSE pc' = "bu_walk" /\ bu_i' = Len(projects) /\ bu_c' = capacity
    /\ UNCHANGED <<projects, capacity, scenario, greedy_res, rec_res, memo,
                   stack, ret, computed, memo_res, bottom_res, out>>

\* lines 192-202, one cell; after the last cell lines 205-206
BU_FillCell ==
    /\ pc = "bu_fill"
    /\ T' = [T EXCEPT ![bu_i + 1][bu_c + 1] =
                 cell_value(T, projects[bu_i], bu_i, bu_c)]
    /\ IF bu_c < capacity
       THEN pc' = pc /\ bu_i' = bu_i /\ bu_c' = bu_c + 1
       ELSE IF bu_i < Len(projects)
            THEN pc' = pc /\ bu_i' = bu_i + 1 /\ bu_c' = 0
            ELSE pc' = "bu_walk" /\ bu_i' = Len(projects) /\ bu_c' = capacity
    /\ UNCHANGED <<projects, capacity, scenario, greedy_res, rec_res, memo,
                   stack, ret, computed, memo_res, chosen, bottom_res, out>>

\* lines 208-211: c and chosen after the iteration i of the reconstruction
walk_step(Tb, ps, i, c, ch) ==
    IF PyItem(Tb[i + 1], c) # PyItem(Tb[i], c)
    THEN [c |-> c - ps[i].hours, chosen |-> Append(ch, i)]
    ELSE [c |-> c, chosen |-> ch]

\* lines 207-211, one iteration of the reconstruction
BU_WalkStep ==
    /\ pc = "bu_walk" /\ bu_i >= 1
    /\ IF ~PyIndexOK(T[bu_i + 1], bu_c) \/ ~PyIndexOK(T[bu_i], bu_c)
       THEN pc' = "IndexError" /\ UNCHANGED <<bu_i, bu_c, chosen>>
       ELSE /\ pc' = pc
            /\ bu_i' = bu_i - 1
            /\ bu_c' = walk_step(T, projects, bu_i, bu_c, chosen).c
            /\ chosen' = walk_step(T, projects, bu_i, bu_c, chosen).chosen
    /\ UNCHANGED <<projects, capacity, scenario, greedy_res, rec_res, memo,
                   stack, ret, computed, memo_res, T, bottom_res, out>>

\* lines 212-213
BU_Return ==
    /\ pc = "bu_walk" /\ bu_i = 0
    /\ IF ~PyIndexOK(T[Len(projects) + 1], capacity)
       THEN pc' = "IndexError" /\ UNCHANGED <<chosen, bottom_res>>
       ELSE /\ chosen' = Reverse(chosen)
            /\ bottom_res' = Result(PyItem(T[Len(projects) + 1], capacity),
                                    Reverse(chosen))
            /\ pc' = "report"
    /\ UNCHANGED <<projects, capacity, scenario, greedy_res, rec_res, memo,
                   stack, ret, computed, memo_res, T, bu_i, bu_c, out>>

(* ------------------------- the callers (run_tests) --------------------- *)
\* line 270
CallGreedy ==
    /\ pc = "call_greedy"
    /\ greedy_res' = greedy_knapsack(projects, capacity)
    /\ pc' = "call_recursive"
    /\ UNCHANGED <<projects, capacity, scenario, rec_res, memo, stack, ret,
                   computed, memo_res, T, bu_i, bu_c, chosen, bottom_res, out>>

\* line 271
CallRecursive ==
    /\ pc = "call_recursive"
    /\ rec_res' = recursive_knapsack(projects, capacity)
    /\ pc' = "call_memoized"
    /\ UNCHANGED <<projects, capacity, scenario, greedy_res, memo, stack, ret,
                   computed, memo_res, T, bu_i, bu_c, chosen, bottom_res, out>>

\* lines 228-267
test_scenarios == <<
    [label |-> "Exemplo Aula",
     projects |-> <<Project("A", 12, 4), Project("B", 10, 3),
                    Project("C", 7, 2), Project("D", 4, 3)>>,
     cap |-> 10, expected |-> 29],
    [label |-> "Greedy Falha",
     projects |-> <<Project("X1", 60, 10), Project("X2", 100, 20),
                    Project("X3", 120, 30)>>,
     cap |-> 50, expected |-> 220],
    [label |-> "Lista Vazia",
     projects |-> <<>>,
     cap |-> 10, expected |-> 0],
    [label |-> "Capacidade Insuficiente",
     projects |-> <<Project("P1", 5, 4), Project("P2", 6, 5)>>,
     cap |-> 3, expected |-> 0],
    [label |-> "Caso Extra",
     projects |-> <<Project("P1", 6, 4), Project("P2", 5, 3),
                    Project("P3", 4, 2)>>,
     cap |-> 5, expected |-> 9] >>

\* lines 216-219
format_solution(title, result) ==
    <<title, result.value, [k \in 1..Len(result.chosen) |->
                               projects[result.chosen[k]].name]>>

\* lines 275-280.  The four solvers are called again for printing; each call
\* builds its own dict / table and depends on nothing but its arguments, so
\* the second call returns what the first returned.
Report ==
    /\ pc = "report" /\ scenario >= 1
    /\ out' = out \o << <<"=====", test_scenarios[scenario].label>>,
                        <<"Capacidade", capacity,
                          test_scenarios[scenario].expected>>,
                        format_solution("Greedy", greedy_res),
                        format_solution("Recursivo", rec_res),
                        format_solution("Memoizado", memo_res),
                        format_solution("Bottom-Up", bottom_res) >>
    /\ pc' = "check"
    /\ UNCHANGED <<projects, capacity, scenario, greedy_res, rec_res, memo,
                   stack, ret, computed, memo_res, T, bu_i, bu_c, chosen,
                   bottom_res>>

\* lines 282-290 and the loop header of line 269: a failed assert raises
\* AssertionError, which nothing catches; otherwise "OK" is printed and the
\* loop takes the next scenario or ends
CheckScenario ==
    /\ pc = "check"
    /\ LET label    == test_scenarios[scenario].label
           expected == test_scenarios[scenario].expected
       IN  IF /\ rec_res.value = expected
              /\ memo_res.value = expected
              /\ bottom_res.value = expected
              /\ IF label # "Greedy Falha"
                 THEN greedy_res.value = expected
                 ELSE greedy_res.value # expected
           THEN /\ out' = Append(out, <<"OK">>)
                /\ IF scenario < Len(test_scenarios)
                   THEN /\ scenario' = scenario + 1
                        /\ projects' = test_scenarios[scenario + 1].projects
                        /\ capacity' = test_scenarios[scenario + 1].cap
                        /\ pc' = "call_greedy"
                   ELSE /\ pc' = "tests_done"
                        /\ UNCHANGED <<projects, capacity, scenario>>
           ELSE /\ pc' = "AssertionError"
                /\ UNCHANGED <<projects, capacity, scenario, out>>
    /\ UNCHANGED <<greedy_res, rec_res, memo, stack, ret, computed, memo_res,
                   T, bu_i, bu_c, chosen, bottom_res>>

\* line 296
MainFinish ==
    /\ pc = "tests_done"
    /\ out' = Append(out, <<"Todos os testes concluidos com sucesso.">>)
    /\ pc' = "finished"
    /\ UNCHANGED <<projects, capacity, scenario, greedy_res, rec_res, memo,
                   stack, ret, computed, memo_res, T, bu_i, bu_c, chosen,
                   bottom_res>>

(* --------------------------- specifications ---------------------------- *)
Names == <<"P1", "P2", "P3", "P4", "P5", "P6">>

\* the project lists of at most MaxN projects with a non-negative value and
\* a positive number of hours
ProjectLists ==
    LET shapes == UNION {[1..k -> (0..MaxValue) \X (1..MaxHours)] : k \in 0..MaxN}
    IN  {[j \in 1..Len(l) |-> Project(Names[j], l[j][1], l[j][2])] : l \in shapes}

Idle ==
    /\ pc = "call_greedy"
    /\ greedy_res = NoResult /\ rec_res = NoResult
    /\ memo_res = NoResult /\ bottom_res = NoResult
    /\ memo = <<>> /\ stack = <<>> /\ ret = NoResult /\ computed = <<>>
    /\ T = <<>> /\ bu_i = 0 /\ bu_c = 0 /\ chosen = <<>>

\* the four solvers called on one input, as by lines 270-273
Init ==
    /\ projects \in ProjectLists
    /\ capacity \in (0 - NegCaps)..MaxCap
    /\ scenario = 0
    /\ out = <<>>
    /\ Idle

Next ==
    \/ CallGreedy
    \/ CallRecursive
    \/ MemoCall
    \/ SolveBase
    \/ SolveKey
    \/ SolveInclude
    \/ SolveStore
    \/ MemoReturn
    \/ BU_Call
    \/ BU_FillCell
    \/ BU_WalkStep
    \/ BU_Return

Spec == Init /\ [][Next]_vars

\* main (lines 293-296) running run_tests: line 294 printed, the first
\* scenario about to be solved
InitTests ==
    /\ scenario = 1
    /\ projects = test_scenarios[1].projects
    /\ capacity = test_scenarios[1].cap
    /\ out = << <<"Executando testes das quatro abordagens de Otimizacao de Portfolio...">> >>
    /\ Idle

NextTests ==
    \/ CallGreedy
    \/ CallRecursive
    \/ MemoCall
    \/ SolveBase
    \/ SolveKey
    \/ SolveInclude
    \/ SolveStore
    \/ MemoReturn
    \/ BU_Call
    \/ BU_FillCell
    \/ BU_WalkStep
    \/ BU_Return
    \/ Report
    \/ CheckScenario
    \/ MainFinish

SpecTests == InitTests /\ [][NextTests]_vars

(* ------------------------------ properties ----------------------------- *)
\* total of a field (hours or value) over a list of chosen positions
RECURSIVE TotalOf(_, _)
TotalOf(ch, field) ==
    IF ch = <<>> THEN 0 ELSE projects[Head(ch)][field] + TotalOf(Tail(ch), field)

\* total of a field over a set of positions
RECURSIVE SetTotal(_, _)
SetTotal(S, field) ==
    IF S = {} THEN 0
    ELSE LET x == CHOOSE y \in S : TRUE
         IN  projects[x][field] + SetTotal(S \ {x}, field)

\* a list of positions that names a subset of the projects: no position
\* twice, every position drawn from the input list
IsSubset(ch) ==
    /\ \A k \in 1..Len(ch) : ch[k] \in 1..Len(projects)
    /\ \A j, k \in 1..Len(ch) : j # k => ch[j] # ch[k]

\* the true optimum: the greatest total value of a subset of the first i
\* projects whose total hours are at most c (c >= 0)
Opt(i, c) ==
    LET feasible == {S \in SUBSET (1..i) : SetTotal(S, "hours") <= c}
        best     == CHOOSE S \in feasible :
                        \A U \in feasible : SetTotal(U, "value") <= SetTotal(S, "value")
    IN  SetTotal(best, "value")

\* the states in which a solver has just returned to its caller
AfterGreedy    == pc = "call_recursive"
AfterRecursive == pc = "call_memoized"
AfterMemoized  == pc = "call_bottom_up"
AfterBottomUp  == pc = "report"

Empty == Result(0, <<>>)

\* C1: for a capacity >= 0, each of the four solvers returns a subset of the
\* projects whose hours sum to at most the capacity.
C1_HoursWithinCapacity ==
    capacity >= 0 =>
        /\ AfterGreedy =>
              IsSubset(greedy_res.chosen) /\ TotalOf(greedy_res.chosen, "hours") <= capacity
        /\ AfterRecursive =>
              IsSubset(rec_res.chosen) /\ TotalOf(rec_res.chosen, "hours") <= capacity
        /\ AfterMemoized =>
              IsSubset(memo_res.chosen) /\ TotalOf(memo_res.chosen, "hours") <= capacity
        /\ AfterBottomUp =>
              IsSubset(bottom_res.chosen) /\ TotalOf(bottom_res.chosen, "hours") <= capacity

\* all four have returned, each chose something, the greedy choice fills the
\* capacity exactly and at least one project was left out
C1_Witness ==
    /\ pc = "report" /\ capacity >= 1
    /\ greedy_res.chosen # <<>> /\ rec_res.chosen # <<>>
    /\ memo_res.chosen # <<>> /\ bottom_res.chosen # <<>>
    /\ TotalOf(greedy_res.chosen, "hours") = capacity
    /\ Len(bottom_res.chosen) < Len(projects)

\* C2: for a capacity >= 0, the value each solver returns is the sum of the
\* values of the subset it returns; the subset bottom_up_knapsack rebuilds
\* sums to T[n][capacity].
C2_ValueIsSumOfChosen ==
    capacity >= 0 =>
        /\ AfterGreedy => greedy_res.value = TotalOf(greedy_res.chosen, "value")
        /\ AfterRecursive => rec_res.value = TotalOf(rec_res.chosen, "value")
        /\ AfterMemoized => memo_res.value = TotalOf(memo_res.chosen, "value")
        /\ AfterBottomUp =>
              /\ bottom_res.value = TotalOf(bottom_res.chosen, "value")
              /\ TotalOf(chosen, "value") = PyItem(T[Len(projects) + 1], capacity)

\* bottom_up_knapsack has rebuilt a subset of two or more projects of
\* positive total value that leaves a project out, and greedy chose a
\* different list of the same value
C2_Witness ==
    /\ pc = "report"
    /\ Len(bottom_res.chosen) >= 2 /\ bottom_res.value > 0
    /\ Len(bottom_res.chosen) < Len(projects)
    /\ greedy_res.value = bottom_res.value
    /\ greedy_res.chosen # bottom_res.chosen

\* C3: for a capacity >= 0, recursive_knapsack, memoized_knapsack and
\* bottom_up_knapsack each return the greatest total value of a subset of
\* the projects whose hours do not exceed the capacity (so the three agree).
C3_ExactSolversOptimal ==
    capacity >= 0 =>
        /\ AfterRecursive => rec_res.value = Opt(Len(projects), capacity)
        /\ AfterMemoized => memo_res.value = Opt(Len(projects), capacity)
        /\ AfterBottomUp => bottom_res.value = Opt(Len(projects), capacity)

\* the three have returned a positive optimum that leaves out a project of
\* positive value
C3_Witness ==
    /\ pc = "report"
    /\ rec_res.value > 0 /\ rec_res.value = memo_res.value
    /\ memo_res.value = bottom_res.value
    /\ \E k \in 1..Len(projects) :
          /\ projects[k].value > 0
          /\ \A j \in 1..Len(rec_res.chosen) : rec_res.chosen[j] # k

\* C4: for a capacity <= 0 every solver returns (0, empty list) and none
\* raises an error.
C4_NonPositiveCapacity ==
    capacity <= 0 =>
        /\ pc # "IndexError"
        /\ AfterGreedy => greedy_res = Empty
        /\ AfterRecursive => rec_res = Empty
        /\ AfterMemoized => memo_res = Empty
        /\ AfterBottomUp => bottom_res = Empty

\* the fill of lines 192-202 has just ended (no later step writes to T)
TableFilled == pc = "bu_walk" /\ bu_i = Len(projects) /\ chosen = <<>>

\* C5: once bottom_up_knapsack has filled its table (capacity >= 0), T[i][c]
\* is, for every i in 0..n and c in 0..capacity, the greatest total value of
\* a subset of the first i projects whose hours are at most c; row 0 and
\* column 0 are 0.
C5_TableHoldsOptima ==
    (capacity >= 0 /\ TableFilled) =>
        /\ Len(T) = Len(projects) + 1
        /\ \A i \in 0..Len(projects) :
              /\ Len(T[i + 1]) = capacity + 1
              /\ \A c \in 0..capacity : T[i + 1][c + 1] = Opt(i, c)
        /\ \A c \in 0..capacity : T[1][c + 1] = 0
        /\ \A i \in 0..Len(projects) : T[i + 1][1] = 0

\* the table is filled, and some row improves on the row above in one column
\* and keeps its value in another column although the project fits there
C5_Witness ==
    /\ TableFilled /\ capacity >= 1 /\ Len(projects) >= 2
    /\ \E i \in 1..Len(projects) :
          /\ \E c \in 0..capacity : T[i + 1][c + 1] > T[i][c + 1]
          /\ \E c \in 0..capacity :
                projects[i].hours <= c /\ T[i + 1][c + 1] = T[i][c + 1]

\* the values lines 235-259 expect, and what greedy_knapsack is to return
ExpectedExact  == <<29, 220, 0, 0, 9>>
ExpectedGreedy == <<29, 160, 0, 0, 9>>

\* C6: run_tests takes the five scenarios and no assertion fails: the exact
\* solvers return 29, 220, 0, 0, 9, greedy_knapsack returns the same except
\* 160 (X1 and X2) in the second scenario, and the run ends with the
\* completion message.
C6_RunTestsPasses ==
    /\ pc # "AssertionError"
    /\ pc # "IndexError"
    /\ scenario \in 1..5
    /\ pc \in {"check", "tests_done", "finished"} =>
          /\ rec_res.value = ExpectedExact[scenario]
          /\ memo_res.value = ExpectedExact[scenario]
          /\ bottom_res.value = ExpectedExact[scenario]
          /\ greedy_res.value = ExpectedGreedy[scenario]
    /\ (pc = "check" /\ scenario = 2) =>
          /\ greedy_res.value < 220
          /\ [k \in 1..Len(greedy_res.chosen) |-> projects[greedy_res.chosen[k]].name]
                = <<"X1", "X2">>
    /\ pc \in {"tests_done", "finished"} => scenario = 5

\* the completion message of line 296 has been printed after five "OK"
C6_Witness ==
    /\ pc = "finished" /\ scenario = 5
    /\ Len(out) = 1 + 5 * 7 + 1

\* the rule of C7 for one subproblem at index i: res is what solve returned,
\* without what the excluding branch returned, with_value the value of the
\* including branch when the project fits
ChoiceRule(res, without, fits, with_value, i) ==
    /\ (res.chosen # <<>> /\ Head(res.chosen) = i + 1) =>
          (fits /\ with_value > without.value)
    /\ (fits /\ with_value = without.value) => res = without

\* what memoized_knapsack's solve(i, remaining) returns once it is known:
\* the base case or the cached entry (an entry, once stored, stays as it is,
\* so the dict at the end holds what every subproblem returned)
Known(i, remaining) ==
    IF i = Len(projects) \/ remaining <= 0 THEN Empty ELSE memo[<<i, remaining>>]

\* C7: in recursive_knapsack and memoized_knapsack, for every subproblem
\* (i, remaining) with i < n and remaining > 0, the returned list starts with
\* project i only if the project fits and including it is strictly better
\* than excluding it; on equal values the excluding branch's result is
\* returned.
C7_ExclusionWinsTies ==
    /\ AfterRecursive =>
          \A i \in 0..(Len(projects) - 1) : \A r \in 1..capacity :
              LET h == projects[i + 1].hours
              IN  ChoiceRule(solve(projects, i, r), solve(projects, i + 1, r),
                             h <= r,
                             solve(projects, i + 1, r - h).value
                                 + projects[i + 1].value,
                             i)
    /\ AfterMemoized =>
        \A key \in DOMAIN memo :
          LET i == key[1]
              r == key[2]
              h == projects[i + 1].hours
          IN  /\ i < Len(projects) /\ r > 0
              /\ ChoiceRule(memo[key], Known(i + 1, r), h <= r,
                            Known(i + 1, r - h).value + projects[i + 1].value,
                            i)

\* a cached subproblem where the project fits, both branches have the same
\* positive value, and the excluding branch's non-empty list was returned
C7_Witness ==
    /\ AfterMemoized
    /\ \E key \in DOMAIN memo :
          LET i == key[1]
              r == key[2]
              h == projects[i + 1].hours
          IN  /\ h <= r
              /\ Known(i + 1, r - h).value + projects[i + 1].value
                     = Known(i + 1, r).value
              /\ memo[key] = Known(i + 1, r)
              /\ memo[key].chosen # <<>>
              /\ solve(projects, i, r) = memo[key]

\* one step of a call of memoized_knapsack, as C8 wants it
C8_Step ==
    pc = "memo_run" =>
        /\ \A k \in DOMAIN memo : k \in DOMAIN memo' /\ memo'[k] = memo[k]
        /\ \A k \in DOMAIN memo' : k[1] < Len(projects) /\ k[2] > 0
        /\ \A k \in DOMAIN computed' : computed'[k] <= 1
        /\ DOMAIN computed' = DOMAIN memo'
        /\ ( /\ stack # <<>> /\ Top.phase = "enter"
             /\ Top.i < Len(projects) /\ Top.remaining > 0
             /\ <<Top.i, Top.remaining>> \in DOMAIN memo )
           => /\ ret' = memo[<<Top.i, Top.remaining>>]
              /\ stack' = Pop
              /\ memo' = memo
              /\ computed' = computed

\* C8: during one call of memoized_knapsack each key (index, remaining) with
\* index < n and remaining > 0 is computed and stored at most once, a later
\* request for it is answered with the stored result, and a stored entry is
\* never overwritten.
C8_EachKeySolvedOnce == [][C8_Step]_vars

\* solve is entered for a key that is already cached
C8_Witness ==
    /\ pc = "memo_run" /\ stack # <<>> /\ Top.phase = "enter"
    /\ Top.i < Len(projects) /\ Top.remaining > 0
    /\ <<Top.i, Top.remaining>> \in DOMAIN memo
    /\ computed[<<Top.i, Top.remaining>>] = 1

\* one step of the reconstruction walk, as C9 wants it
C9_Step ==
    (pc = "bu_walk" /\ capacity >= 0) =>
        /\ bu_c \in 0..capacity
        /\ bu_c' \in 0..capacity
        /\ Len(chosen') > Len(chosen) => projects[bu_i].hours <= bu_c
        /\ pc' # "IndexError"

\* C9: in the reconstruction walk of bottom_up_knapsack (capacity >= 0) a
\* project is recorded only where its hours are <= the current c, so c stays
\* within 0..capacity and no cell is read at a negative column.
C9_WalkStaysInTable == [][C9_Step]_vars

\* the walk has recorded a project, has used the capacity up and still has
\* rows to visit
C9_Witness ==
    /\ pc = "bu_walk" /\ capacity >= 1
    /\ chosen # <<>> /\ bu_c = 0 /\ bu_i >= 1

\* C10: memoized_knapsack returns the pair recursive_knapsack returns: the
\* same value and the same list in the same order.
C10_MemoizedEqualsRecursive ==
    AfterMemoized => memo_res = rec_res

\* both have returned the same list of two or more projects, leaving one out,
\* after at least one subproblem was answered from the cache's keys
C10_Witness ==
    /\ pc = "call_bottom_up"
    /\ memo_res = rec_res
    /\ Len(memo_res.chosen) >= 2
    /\ Len(memo_res.chosen) < Len(projects)

====
